---------------------------- MODULE Spec2Model ----------------------------
(***************************************************************************)
(* Model of the schema-driven multi-section form of src/src/App.tsx:       *)
(* the DynamicForm component (validateSection, handleInputChange,          *)
(* goToNextSection, goToPrevSection, handleSubmit, the checkbox onChange   *)
(* handler) and the buttons renderSection offers; and of the App and       *)
(* LoginForm components around it (registerUser, fetchFormData, the        *)
(* effect that fetches the form, the login form's validateForm).           *)
(*                                                                         *)
(* JavaScript values are tagged records [t, v]: undefined, a string (a     *)
(* sequence of one-character strings) or an array (a sequence of strings). *)
(* Section indices are 0-based as in the source; TLA+ sequences are        *)
(* 1-based, so section i is formData.sections[i + 1].                      *)
(***************************************************************************)
EXTENDS Integers, Sequences, FiniteSets, TLC

VARIABLES
    formData,        \* DynamicForm prop: the schema (read-only)
    currentSection,  \* useState<number>(0)
    formValues,      \* useState<Record<string, any>>({})
    formErrors,      \* useState<Record<string, string>>({})
    domChecked,      \* checked state of the mounted (uncontrolled) checkboxes
    console,         \* <<>>, then the value store handleSubmit logged last
    vField,          \* validateSection's forEach body: field being validated
    vValue,          \*   its value (formValues[field.fieldId])
    vState,          \*   the locals [newErrors, isValid]
    vpc,             \*   position in the forEach body
    tValue,          \* checkbox onChange: the field's stored value
    tInitial,        \*   the stored value before the first toggle
    tOption,         \*   option.value of the checkbox toggled
    tTrace,          \*   e.target.checked of the toggles applied so far
    user,            \* App: useState<User | null>(null); <<>> is null
    appFormData,     \* App: formData, useState<FormData | null>(null)
    isLoading,       \* App: useState<boolean>(false)
    error,           \* App: useState<string | null>(null)
    isLoggedIn,      \* App: useState<boolean>(false)
    effectDeps,      \* App: [isLoggedIn, user] when the effect last ran
    rollNumber,      \* LoginForm: useState<string>("")
    name,            \* LoginForm: useState<string>("")
    loginErrors,     \* LoginForm: formErrors, useState({})
    registerPending, \* create-user requests sent and not yet answered
    fetchPending,    \* get-form requests sent and not yet answered
    network          \* the requests sent so far, in order

formVars == <<formData, currentSection, formValues, formErrors, domChecked, console>>
validatorVars == <<vField, vValue, vState, vpc>>
toggleVars == <<tValue, tInitial, tOption, tTrace>>
appVars == <<user, appFormData, isLoading, error, isLoggedIn, effectDeps,
             rollNumber, name, loginErrors, registerPending, fetchPending, network>>
vars == <<formData, currentSection, formValues, formErrors, domChecked, console,
          vField, vValue, vState, vpc, tValue, tInitial, tOption, tTrace,
          user, appFormData, isLoading, error, isLoggedIn, effectDeps,
          rollNumber, name, loginErrors, registerPending, fetchPending, network>>

----------------------------------------------------------------------------
(* Bounds of the model *)

\* longest string over Chars a text input of the form delivers
MaxTyped == 1
\* longest string over Chars validated in isolation
MaxStrLen == 2
\* longest stored checkbox list the toggle handler is applied to
MaxListLen == 3
\* number of consecutive toggles of one checkbox
MaxToggles == 3
\* largest minLength / maxLength of the fields validated in isolation
MaxBound == 3
\* number of create-user requests the login form sends
MaxRequests == 2

----------------------------------------------------------------------------
(* JavaScript values *)

Undefined == [t |-> "undefined", v |-> <<>>]
Str(s) == [t |-> "string", v |-> s]
Arr(a) == [t |-> "array", v |-> a]

IsString(value) == value.t = "string"
IsArray(value) == value.t = "array"

\* ToBoolean: undefined and "" are falsy, every array is truthy
Truthy(value) ==
    CASE value.t = "undefined" -> FALSE
      [] value.t = "string" -> value.v # <<>>
      [] value.t = "array" -> TRUE

WhiteSpace == {" "}

RECURSIVE TrimStart(_)
TrimStart(s) ==
    IF s # <<>> /\ Head(s) \in WhiteSpace THEN TrimStart(Tail(s)) ELSE s

RECURSIVE TrimEnd(_)
TrimEnd(s) ==
    IF s # <<>> /\ s[Len(s)] \in WhiteSpace
    THEN TrimEnd(SubSeq(s, 1, Len(s) - 1))
    ELSE s

\* String.prototype.trim
Trim(s) == TrimEnd(TrimStart(s))

Range(s) == {s[i] : i \in 1..Len(s)}

\* Array.prototype.indexOf, 0-based, -1 when absent
IndexOf(a, x) ==
    IF x \in Range(a)
    THEN (CHOOSE i \in 1..Len(a) : a[i] = x /\ \A j \in 1..(i - 1) : a[j] # x) - 1
    ELSE 0 - 1

\* Array.prototype.splice(index, 1), index 0-based
Splice1(a, index) == SubSeq(a, 1, index) \o SubSeq(a, index + 2, Len(a))

\* object spread { ...a, ...b }
Spread(a, b) ==
    [k \in DOMAIN a \cup DOMAIN b |-> IF k \in DOMAIN b THEN b[k] ELSE a[k]]

\* delete obj[key] on a copy
Delete(obj, key) == [k \in DOMAIN obj \ {key} |-> obj[k]]

EmptyRecord == [k \in {} |-> <<>>]

----------------------------------------------------------------------------
(* Schema model: FormField, FormSection, FormData *)

\* minLength / maxLength are optional: <<>> is undefined, <<n>> is the number n
Field(fieldId, type, label, required, minLength, maxLength, options) ==
    [fieldId |-> fieldId, type |-> type, label |-> label, required |-> required,
     minLength |-> minLength, maxLength |-> maxLength, options |-> options]

Section(sectionId, fields) == [sectionId |-> sectionId, fields |-> fields]

FormSchema(sections) == [sections |-> sections]

TextTypes == {"text", "email", "tel", "date", "textarea"}

Options == <<"a", "b">>

\* the one-section schema of the first end-to-end scenario
NameField == Field("name", "text", "Name", TRUE, <<2>>, <<10>>, <<>>)
NameSchema == FormSchema(<<Section(1, <<NameField>>)>>)

\* the length constraints the schemas of the model give their text field
LengthChoices == {<<<<>>, <<>>>>, <<<<2>>, <<>>>>, <<<<>>, <<1>>>>, <<<<3>>, <<1>>>>}

CityField(required, lens) ==
    Field("city", "text", "City", required, lens[1], lens[2], <<>>)
HobbiesField(required) ==
    Field("hobbies", "checkbox", "Hobbies", required, <<>>, <<>>, Options)
PlanField == Field("plan", "dropdown", "Plan", TRUE, <<>>, <<>>, Options)

TwoSectionSchema(required, lens, checkboxRequired) ==
    FormSchema(<<Section(1, <<CityField(required, lens)>>),
                 Section(2, <<HobbiesField(checkboxRequired)>>)>>)

ThreeSectionSchema ==
    FormSchema(<<Section(1, <<CityField(TRUE, <<<<2>>, <<>>>>)>>),
                 Section(2, <<PlanField>>),
                 Section(3, <<HobbiesField(FALSE)>>)>>)

Schemas ==
    {NameSchema, ThreeSectionSchema}
        \cup {TwoSectionSchema(r, l, c) : r \in BOOLEAN, l \in LengthChoices, c \in BOOLEAN}

\* the strings a text input can deliver as e.target.value
Chars == {" ", "a"}
BoundedStrings == UNION {[1..n -> Chars] : n \in 0..MaxStrLen}
TypedStrings == UNION {[1..n -> Chars] : n \in 0..MaxTyped}
ScenarioStrings == {<<"A">>, <<"A", "l", "i", "c", "e">>}
InputStrings == TypedStrings \cup ScenarioStrings

\* the arrays a checkbox field's value is drawn from
BoundedLists == UNION {[1..n -> Range(Options)] : n \in 0..MaxListLen}

----------------------------------------------------------------------------
(* validateSection, lines 332-376 *)

\* formValues[fieldId] of a Record<string, any>
Get(record, key) == IF key \in DOMAIN record THEN record[key] ELSE Undefined

RequiredMessage(field) == <<field.label, " is required">>
MinLengthMessage(field) ==
    <<field.label, " must be at least ", ToString(field.minLength[1]), " characters">>
MaxLengthMessage(field) ==
    <<field.label, " must be at most ", ToString(field.maxLength[1]), " characters">>

\* the condition of the first if, lines 340-344
RequiredRuleFires(field, value) ==
    \/ /\ field.required
       /\ \/ ~Truthy(value)
          \/ IsString(value) /\ ~Truthy(Str(Trim(value.v)))
    \/ IsArray(value) /\ Len(value.v) = 0

\* the second condition with <= for <
MinLengthRuleFiresInclusive(field, value) ==
    /\ field.minLength # <<>>
    /\ Truthy(value)
    /\ IsString(value)
    /\ Len(value.v) <= field.minLength[1]

\* the second condition without its test that the value is truthy
MinLengthRuleFiresOnEmpty(field, value) ==
    /\ field.minLength # <<>>
    /\ IsString(value)
    /\ Len(value.v) < field.minLength[1]

\* the condition of the second if, lines 349-354
MinLengthRuleFires(field, value) ==
    /\ field.minLength # <<>>
    /\ Truthy(value)
    /\ IsString(value)
    /\ Len(value.v) < field.minLength[1]

\* the condition of the third if, lines 361-366
MaxLengthRuleFires(field, value) ==
    /\ field.maxLength # <<>>
    /\ Truthy(value)
    /\ IsString(value)
    /\ Len(value.v) > field.maxLength[1]

\* a message recorded only when the field has none yet
FailKeepsFirst(field, message, st) ==
    [newErrors |-> Spread(field.fieldId :> message, st.newErrors), isValid |-> FALSE]

\* newErrors[field.fieldId] = message; isValid = false
Fail(field, message, st) ==
    [newErrors |-> Spread(st.newErrors, field.fieldId :> message), isValid |-> FALSE]

CheckRequired(field, value, st) ==
    IF RequiredRuleFires(field, value) THEN Fail(field, RequiredMessage(field), st) ELSE st

CheckMinLength(field, value, st) ==
    IF MinLengthRuleFires(field, value) THEN Fail(field, MinLengthMessage(field), st) ELSE st

CheckMaxLength(field, value, st) ==
    IF MaxLengthRuleFires(field, value) THEN Fail(field, MaxLengthMessage(field), st) ELSE st

\* one iteration of section.fields.forEach
ValidateField(field, value, st) ==
    CheckMaxLength(field, value, CheckMinLength(field, value, CheckRequired(field, value, st)))

RECURSIVE ForEachField(_, _, _)
ForEachField(fields, values, st) ==
    IF fields = <<>>
    THEN st
    ELSE ForEachField(Tail(fields), values,
                      ValidateField(Head(fields), Get(values, Head(fields).fieldId), st))

InitialValidation == [newErrors |-> EmptyRecord, isValid |-> TRUE]

\* the locals newErrors and isValid when the forEach of validateSection ends
SectionValidation(schema, sectionIndex, values) ==
    ForEachField(schema.sections[sectionIndex + 1].fields, values, InitialValidation)

\* validateSection with setFormErrors(newErrors): no overlay on formErrors
validateSectionReplaces(sectionIndex, isValid) ==
    LET result == SectionValidation(formData, sectionIndex, formValues) IN
    /\ formErrors' = result.newErrors
    /\ isValid = result.isValid

\* validateSection(sectionIndex) returning isValid
validateSection(sectionIndex, isValid) ==
    LET result == SectionValidation(formData, sectionIndex, formValues) IN
    /\ formErrors' = Spread(formErrors, result.newErrors)
    /\ isValid = result.isValid

----------------------------------------------------------------------------
(* The handlers of DynamicForm *)

NumSections == Len(formData.sections)

\* the fields renderSection maps over: those of the section displayed
CurrentFields == Range(formData.sections[currentSection + 1].fields)

AllFields == UNION {Range(formData.sections[i].fields) : i \in 1..NumSections}

\* the section's div is keyed by sectionId: a change of section unmounts the
\* inputs, and the new section's uncontrolled checkboxes mount unchecked
Remount == IF currentSection' # currentSection THEN {} ELSE domChecked

\* handleInputChange without the removal of the field's error entry
handleInputChangeKeepsError(fieldId, value) ==
    /\ formValues' = Spread(formValues, fieldId :> value)
    /\ formErrors' = formErrors
    /\ UNCHANGED <<formData, currentSection, console>>

\* handleInputChange dropping every error entry when the field has one
handleInputChangeClearsAll(fieldId, value) ==
    /\ formValues' = Spread(formValues, fieldId :> value)
    /\ formErrors' = IF fieldId \in DOMAIN formErrors /\ formErrors[fieldId] # <<>>
                     THEN EmptyRecord
                     ELSE formErrors
    /\ UNCHANGED <<formData, currentSection, console>>

\* handleInputChange(fieldId, value), lines 378-389
handleInputChange(fieldId, value) ==
    /\ formValues' = Spread(formValues, fieldId :> value)
    /\ formErrors' = IF fieldId \in DOMAIN formErrors /\ formErrors[fieldId] # <<>>
                     THEN Delete(formErrors, fieldId)
                     ELSE formErrors
    /\ UNCHANGED <<formData, currentSection, console>>

\* goToNextSection moving on whatever validateSection returns
goToNextSectionUnchecked ==
    /\ \E isValid \in BOOLEAN :
          /\ validateSection(currentSection, isValid)
          /\ currentSection' = IF currentSection < NumSections - 1
                               THEN currentSection + 1
                               ELSE currentSection
    /\ domChecked' = Remount
    /\ UNCHANGED <<formData, formValues, console>>

\* goToNextSection without the test for the last section
goToNextSectionUnbounded ==
    /\ \E isValid \in BOOLEAN :
          /\ validateSection(currentSection, isValid)
          /\ currentSection' = IF isValid THEN currentSection + 1 ELSE currentSection
    /\ domChecked' = Remount
    /\ UNCHANGED <<formData, formValues, console>>

\* goToNextSection, lines 391-397
goToNextSection ==
    /\ \E isValid \in BOOLEAN :
          /\ validateSection(currentSection, isValid)
          /\ currentSection' = IF isValid /\ currentSection < NumSections - 1
                               THEN currentSection + 1
                               ELSE currentSection
    /\ domChecked' = Remount
    /\ UNCHANGED <<formData, formValues, console>>

\* goToPrevSection validating the section it leaves, as goToNextSection does
goToPrevSectionValidated ==
    /\ \E isValid \in BOOLEAN :
          /\ validateSection(currentSection, isValid)
          /\ currentSection' = IF isValid /\ currentSection > 0
                               THEN currentSection - 1
                               ELSE currentSection
    /\ domChecked' = Remount
    /\ UNCHANGED <<formData, formValues, console>>

\* goToPrevSection, lines 399-403
goToPrevSection ==
    /\ currentSection' = IF currentSection > 0 THEN currentSection - 1 ELSE currentSection
    /\ domChecked' = Remount
    /\ UNCHANGED <<formData, formValues, formErrors, console>>

\* handleSubmit logging whatever validateSection returns
handleSubmitUnvalidated ==
    /\ \E isValid \in BOOLEAN :
          /\ validateSection(currentSection, isValid)
          /\ console' = <<formValues>>
    /\ UNCHANGED <<formData, currentSection, formValues, domChecked>>

\* handleSubmit, lines 405-411: console.log hands the value store off
handleSubmit ==
    /\ \E isValid \in BOOLEAN :
          /\ validateSection(currentSection, isValid)
          /\ console' = IF isValid THEN <<formValues>> ELSE console
    /\ UNCHANGED <<formData, currentSection, formValues, domChecked>>

\* const checkboxValues = Array.isArray(value) ? value : [], line 709
CheckboxValues(value) == IF IsArray(value) THEN value.v ELSE <<>>

\* updatedValues without the test index !== -1: splice(-1, 1) removes the
\* last element
UpdatedValuesUnguarded(checkboxValues, optionValue, checked) ==
    IF checked
    THEN checkboxValues
    ELSE LET index == IndexOf(checkboxValues, optionValue) IN
         IF index # 0 - 1
         THEN Splice1(checkboxValues, index)
         ELSE SubSeq(checkboxValues, 1, Len(checkboxValues) - 1)

\* updatedValues of the checkbox onChange, lines 719-730: the push of the
\* checked branch is commented out in the source
UpdatedValues(checkboxValues, optionValue, checked) ==
    IF checked
    THEN checkboxValues
    ELSE LET index == IndexOf(checkboxValues, optionValue) IN
         IF index # 0 - 1 THEN Splice1(checkboxValues, index) ELSE checkboxValues

\* the checkbox onChange handler, lines 719-732
CheckboxOnChange(field, optionValue, checked) ==
    handleInputChange(field.fieldId,
        Arr(UpdatedValues(CheckboxValues(Get(formValues, field.fieldId)), optionValue, checked)))

----------------------------------------------------------------------------
(* The events renderField wires to the handlers, for the fields of `fields` *)

\* text, email, tel, date, textarea (lines 601, 623): e.target.value
TextOnChange(fields) ==
    \E field \in fields, s \in InputStrings :
        /\ field.type \in TextTypes
        /\ handleInputChange(field.fieldId, Str(s))

\* dropdown (line 645): "Select an option" (value "") or one of the options
SelectOnChange(fields) ==
    \E field \in fields :
        /\ field.type = "dropdown"
        /\ \E s \in {<<>>} \cup {<<o>> : o \in Range(field.options)} :
              handleInputChange(field.fieldId, Str(s))

\* checkbox (lines 719-732): e.target.checked is the box's new state
CheckboxEvent(fields, checked) ==
    \E field \in fields :
        /\ field.type = "checkbox"
        /\ \E o \in Range(field.options) :
              /\ (<<field.fieldId, o>> \notin domChecked) = checked
              /\ domChecked' = IF checked
                               THEN domChecked \cup {<<field.fieldId, o>>}
                               ELSE domChecked \ {<<field.fieldId, o>>}
              /\ CheckboxOnChange(field, o, checked)

OtherVarsUnchanged ==
    UNCHANGED <<vField, vValue, vState, vpc, tValue, tInitial, tOption, tTrace, appVars>>

\* the state hooks of App (lines 62-66) and LoginForm (lines 173-178)
AppInit ==
    /\ user = <<>>
    /\ appFormData = <<>>
    /\ isLoading = FALSE
    /\ error = <<>>
    /\ isLoggedIn = FALSE
    /\ effectDeps = <<FALSE, <<>>>>
    /\ rollNumber = <<>>
    /\ name = <<>>
    /\ loginErrors = EmptyRecord
    /\ registerPending = {}
    /\ fetchPending = {}
    /\ network = <<>>

IdleValidator ==
    /\ vField = NameField /\ vValue = Undefined
    /\ vState = InitialValidation /\ vpc = "idle"

IdleToggle ==
    /\ tValue = Undefined /\ tInitial = Undefined
    /\ tOption = Options[1] /\ tTrace = <<>>

\* a schema is loaded: the state hooks of lines 327-329
FormInit ==
    /\ formData \in Schemas
    /\ currentSection = 0
    /\ formValues = EmptyRecord
    /\ formErrors = EmptyRecord
    /\ domChecked = {}
    /\ console = <<>>

IdleForm ==
    /\ formData = NameSchema /\ currentSection = 0
    /\ formValues = EmptyRecord /\ formErrors = EmptyRecord
    /\ domChecked = {} /\ console = <<>>

Init == FormInit /\ IdleValidator /\ IdleToggle /\ AppInit

----------------------------------------------------------------------------
(* The form as the user drives it: only the displayed section's fields can *)
(* be edited, and renderSection offers Previous, Next and Submit by index  *)

TypeText == TextOnChange(CurrentFields) /\ UNCHANGED domChecked /\ OtherVarsUnchanged

SelectOption == SelectOnChange(CurrentFields) /\ UNCHANGED domChecked /\ OtherVarsUnchanged

\* a click on an unchecked box checks it
CheckBox == CheckboxEvent(CurrentFields, TRUE) /\ OtherVarsUnchanged

\* a click on a checked box unchecks it
UncheckBox == CheckboxEvent(CurrentFields, FALSE) /\ OtherVarsUnchanged

\* the Previous button, lines 550-558
ClickPrevious == currentSection > 0 /\ goToPrevSection /\ OtherVarsUnchanged

\* the Next button, lines 560-567
ClickNext == currentSection < NumSections - 1 /\ goToNextSection /\ OtherVarsUnchanged

\* the Submit button, lines 568-576
ClickSubmit == ~(currentSection < NumSections - 1) /\ handleSubmit /\ OtherVarsUnchanged

Next ==
    \/ TypeText
    \/ SelectOption
    \/ CheckBox
    \/ UncheckBox
    \/ ClickPrevious
    \/ ClickNext
    \/ ClickSubmit

Spec == Init /\ [][Next]_vars

----------------------------------------------------------------------------
(* The handlers called directly, in any state and for any field of the     *)
(* schema: the operations advance(), retreat(), submit() and setValue()    *)

SetText == TextOnChange(AllFields) /\ UNCHANGED domChecked /\ OtherVarsUnchanged

SetOption == SelectOnChange(AllFields) /\ UNCHANGED domChecked /\ OtherVarsUnchanged

ToggleOn == CheckboxEvent(AllFields, TRUE) /\ OtherVarsUnchanged

ToggleOff == CheckboxEvent(AllFields, FALSE) /\ OtherVarsUnchanged

Advance == goToNextSection /\ OtherVarsUnchanged

Retreat == goToPrevSection /\ OtherVarsUnchanged

Submit == handleSubmit /\ OtherVarsUnchanged

NextHandlers ==
    \/ SetText
    \/ SetOption
    \/ ToggleOn
    \/ ToggleOff
    \/ Advance
    \/ Retreat
    \/ Submit

SpecHandlers == Init /\ [][NextHandlers]_vars

----------------------------------------------------------------------------
(* The body of validateSection's forEach, one if statement at a time, on a *)
(* single field and value                                                  *)

LengthBounds == {<<>>} \cup {<<n>> : n \in 0..MaxBound}

ValidatedFields ==
    {Field("f", type, "F", required, minLength, maxLength,
           IF type = "checkbox" THEN Options ELSE <<>>) :
        type \in {"text", "checkbox"}, required \in BOOLEAN,
        minLength \in LengthBounds, maxLength \in LengthBounds}

ValidatedValues ==
    {Undefined} \cup {Str(s) : s \in BoundedStrings} \cup {Arr(a) : a \in BoundedLists}

ValidateInit ==
    /\ vField \in ValidatedFields
    /\ vValue \in ValidatedValues
    /\ vState = InitialValidation
    /\ vpc = "required"
    /\ IdleForm /\ IdleToggle /\ AppInit

\* lines 340-347
StepRequired ==
    /\ vpc = "required"
    /\ vState' = CheckRequired(vField, vValue, vState)
    /\ vpc' = "minLength"
    /\ UNCHANGED <<vField, vValue, formVars, toggleVars, appVars>>

\* lines 349-359
StepMinLength ==
    /\ vpc = "minLength"
    /\ vState' = CheckMinLength(vField, vValue, vState)
    /\ vpc' = "maxLength"
    /\ UNCHANGED <<vField, vValue, formVars, toggleVars, appVars>>

\* lines 361-371
StepMaxLength ==
    /\ vpc = "maxLength"
    /\ vState' = CheckMaxLength(vField, vValue, vState)
    /\ vpc' = "done"
    /\ UNCHANGED <<vField, vValue, formVars, toggleVars, appVars>>

NextValidate ==
    \/ StepRequired
    \/ StepMinLength
    \/ StepMaxLength

SpecValidate == ValidateInit /\ [][NextValidate]_vars

----------------------------------------------------------------------------
(* The checkbox onChange handler applied repeatedly to one option of one   *)
(* checkbox field, from any stored value                                   *)

ToggleInit ==
    /\ tInitial \in {Undefined} \cup {Arr(a) : a \in BoundedLists}
    /\ tValue = tInitial
    /\ tOption \in Range(Options)
    /\ tTrace = <<>>
    /\ IdleForm /\ IdleValidator /\ AppInit

\* the handler with e.target.checked = true
ToggleChecked ==
    /\ Len(tTrace) < MaxToggles
    /\ tValue' = Arr(UpdatedValues(CheckboxValues(tValue), tOption, TRUE))
    /\ tTrace' = Append(tTrace, TRUE)
    /\ UNCHANGED <<tInitial, tOption, formVars, validatorVars, appVars>>

\* the handler with e.target.checked = false
ToggleUnchecked ==
    /\ Len(tTrace) < MaxToggles
    /\ tValue' = Arr(UpdatedValues(CheckboxValues(tValue), tOption, FALSE))
    /\ tTrace' = Append(tTrace, FALSE)
    /\ UNCHANGED <<tInitial, tOption, formVars, validatorVars, appVars>>

NextToggle ==
    \/ ToggleChecked
    \/ ToggleUnchecked

SpecToggle == ToggleInit /\ [][NextToggle]_vars

----------------------------------------------------------------------------
(* App and LoginForm: the session flow around the form.  State updates of  *)
(* one continuation are batched into one render, and the effect runs after *)
(* the render that changed its dependencies.  Nullable state is <<>> for   *)
(* null and <<x>> for the value x.                                         *)

AlreadyExistsMessage == "User already exists. Fetch /get-form to get form json"

\* data.message of the create-user answers; "" stands for no message
RegisterMessages == {AlreadyExistsMessage, "User created", "Invalid roll number", ""}

\* data.message of the get-form answers
FetchMessages == {"Form fetched", "User not found", ""}

\* data.form of the successful get-form answers
FetchedForms == {NameSchema, ThreeSectionSchema}

\* err.message of a rejected fetch
TransportMessage == "Failed to fetch"

User(roll, userName) == [rollNumber |-> roll, name |-> userName]

Request(kind, roll) == [kind |-> kind, rollNumber |-> roll]

\* what the login inputs deliver as e.target.value
LoginInputs == TypedStrings

\* validateForm testing its inputs without trim()
LoginFormErrorsUntrimmed ==
    Spread(IF rollNumber = <<>>
           THEN "rollNumber" :> "Roll Number is required"
           ELSE EmptyRecord,
           IF name = <<>> THEN "name" :> "Name is required" ELSE EmptyRecord)

\* validateForm's errors, lines 181-189
LoginFormErrors ==
    Spread(IF Trim(rollNumber) = <<>>
           THEN "rollNumber" :> "Roll Number is required"
           ELSE EmptyRecord,
           IF Trim(name) = <<>> THEN "name" :> "Name is required" ELSE EmptyRecord)

\* registerUser up to its first await, lines 77-90
RegisterUserCall(userData) ==
    /\ isLoading' = TRUE
    /\ error' = <<>>
    /\ registerPending' = registerPending \cup {userData}
    /\ network' = Append(network, Request("create-user", userData.rollNumber))

\* the login form's controls without their disabled attribute
LoginFormUsableWhileLoading == ~isLoggedIn

\* the login form is rendered (line 144) and its controls are not disabled
\* (lines 239, 255, 261)
LoginFormUsable == ~isLoggedIn /\ ~isLoading

\* onChange of the rollNumber input, line 238
TypeRollNumber ==
    /\ LoginFormUsable
    /\ \E s \in LoginInputs : rollNumber' = s
    /\ UNCHANGED <<user, appFormData, isLoading, error, isLoggedIn, effectDeps,
                   name, loginErrors, registerPending, fetchPending, network>>
    /\ UNCHANGED <<formVars, validatorVars, toggleVars>>

\* onChange of the name input, line 254
TypeName ==
    /\ LoginFormUsable
    /\ \E s \in LoginInputs : name' = s
    /\ UNCHANGED <<user, appFormData, isLoading, error, isLoggedIn, effectDeps,
                   rollNumber, loginErrors, registerPending, fetchPending, network>>
    /\ UNCHANGED <<formVars, validatorVars, toggleVars>>

\* the Login button: LoginForm's handleSubmit, lines 195-201
ClickLogin ==
    /\ LoginFormUsable
    /\ loginErrors' = LoginFormErrors
    /\ IF LoginFormErrors = EmptyRecord
       THEN /\ Len(network) < MaxRequests
            /\ RegisterUserCall(User(rollNumber, name))
       ELSE UNCHANGED <<isLoading, error, registerPending, network>>
    /\ UNCHANGED <<user, appFormData, isLoggedIn, effectDeps, rollNumber, name,
                   fetchPending>>
    /\ UNCHANGED <<formVars, validatorVars, toggleVars>>

\* only a successful answer authenticates
AuthenticatesOnSuccess(ok, message) == ok

\* the test of lines 94-96 or the fall-through past line 101
Authenticates(ok, message) == message = AlreadyExistsMessage \/ ok

\* data.message || fallback
MessageOr(message, fallback) == IF message # "" THEN message ELSE fallback

\* the user-visible error registerUser leaves, lines 101-108
RegisterError(ok, message) ==
    IF ok THEN error ELSE <<MessageOr(message, "Failed to register user")>>

\* registerUser after its awaits, lines 92-111, on the answer (ok, message)
RegisterAnswer(userData, ok, message) ==
    /\ userData \in registerPending
    /\ registerPending' = registerPending \ {userData}
    /\ user' = IF Authenticates(ok, message) THEN <<userData>> ELSE user
    /\ isLoggedIn' = IF Authenticates(ok, message) THEN TRUE ELSE isLoggedIn
    /\ error' = RegisterError(ok, message)
    /\ isLoading' = FALSE
    /\ UNCHANGED <<appFormData, effectDeps, rollNumber, name, loginErrors,
                   fetchPending, network>>
    /\ UNCHANGED <<formVars, validatorVars, toggleVars>>

RegisterResponds ==
    \E userData \in registerPending, ok \in BOOLEAN, message \in RegisterMessages :
        RegisterAnswer(userData, ok, message)

\* registerUser when fetch rejects, lines 107-111
RegisterRejects ==
    \E userData \in registerPending :
        /\ registerPending' = registerPending \ {userData}
        /\ error' = <<TransportMessage>>
        /\ isLoading' = FALSE
        /\ UNCHANGED <<user, appFormData, isLoggedIn, effectDeps, rollNumber, name,
                       loginErrors, fetchPending, network>>
        /\ UNCHANGED <<formVars, validatorVars, toggleVars>>

\* fetchFormData up to its first await, lines 114-120
FetchFormDataCall(roll) ==
    /\ isLoading' = TRUE
    /\ error' = <<>>
    /\ fetchPending' = fetchPending \cup {roll}
    /\ network' = Append(network, Request("get-form", roll))

\* the effect without its dependency array: it runs after every render
FetchFormEffectEveryRender ==
    /\ IF isLoggedIn /\ user # <<>>
       THEN FetchFormDataCall(user[1].rollNumber)
       ELSE UNCHANGED <<isLoading, error, fetchPending, network>>
    /\ UNCHANGED <<user, appFormData, isLoggedIn, effectDeps, rollNumber, name,
                   loginErrors, registerPending>>
    /\ UNCHANGED <<formVars, validatorVars, toggleVars>>

\* the effect of lines 68-74, run when isLoggedIn or user has changed
FetchFormEffect ==
    /\ <<isLoggedIn, user>> # effectDeps
    /\ effectDeps' = <<isLoggedIn, user>>
    /\ IF isLoggedIn /\ user # <<>>
       THEN FetchFormDataCall(user[1].rollNumber)
       ELSE UNCHANGED <<isLoading, error, fetchPending, network>>
    /\ UNCHANGED <<user, appFormData, isLoggedIn, rollNumber, name, loginErrors,
                   registerPending>>
    /\ UNCHANGED <<formVars, validatorVars, toggleVars>>

\* fetchFormData setting the form before it tests response.ok
FetchAnswerSetsFormFirst(roll, ok, message, form) ==
    /\ roll \in fetchPending
    /\ fetchPending' = fetchPending \ {roll}
    /\ appFormData' = <<form>>
    /\ error' = IF ok
                THEN error
                ELSE <<MessageOr(message, "Failed to fetch form data")>>
    /\ isLoading' = FALSE
    /\ UNCHANGED <<user, isLoggedIn, effectDeps, rollNumber, name, loginErrors,
                   registerPending, network>>
    /\ UNCHANGED <<formVars, validatorVars, toggleVars>>

\* fetchFormData after its awaits, lines 122-138, on the answer (ok, message, form)
FetchAnswer(roll, ok, message, form) ==
    /\ roll \in fetchPending
    /\ fetchPending' = fetchPending \ {roll}
    /\ appFormData' = IF ok THEN <<form>> ELSE appFormData
    /\ error' = IF ok
                THEN error
                ELSE <<MessageOr(message, "Failed to fetch form data")>>
    /\ isLoading' = FALSE
    /\ UNCHANGED <<user, isLoggedIn, effectDeps, rollNumber, name, loginErrors,
                   registerPending, network>>
    /\ UNCHANGED <<formVars, validatorVars, toggleVars>>

FetchResponds ==
    \E roll \in fetchPending, ok \in BOOLEAN, message \in FetchMessages,
       form \in FetchedForms :
        FetchAnswer(roll, ok, message, form)

\* fetchFormData when fetch rejects, lines 130-138
FetchRejects ==
    \E roll \in fetchPending :
        /\ fetchPending' = fetchPending \ {roll}
        /\ error' = <<TransportMessage>>
        /\ isLoading' = FALSE
        /\ UNCHANGED <<user, appFormData, isLoggedIn, effectDeps, rollNumber, name,
                       loginErrors, registerPending, network>>
        /\ UNCHANGED <<formVars, validatorVars, toggleVars>>

InitApp == AppInit /\ IdleForm /\ IdleValidator /\ IdleToggle

NextApp ==
    \/ TypeRollNumber
    \/ TypeName
    \/ ClickLogin
    \/ RegisterResponds
    \/ RegisterRejects
    \/ FetchFormEffect
    \/ FetchResponds
    \/ FetchRejects

SpecApp == InitApp /\ [][NextApp]_vars

----------------------------------------------------------------------------
(* Properties of the navigation state machine and the value store *)

\* what validateSection computes for the displayed section in this state
CurrentValidation == SectionValidation(formData, currentSection, formValues)

\* every entry of newErrors is an entry of the error record
Surfaced(newErrors, errors) ==
    \A id \in DOMAIN newErrors : id \in DOMAIN errors /\ errors[id] = newErrors[id]

\* a required field of the displayed section whose value is absent or ""
EmptyRequiredFields ==
    {field \in CurrentFields :
        field.required /\ Get(formValues, field.fieldId) \in {Undefined, Str(<<>>)}}

\* C1: an advance() from a section whose validation reports an error (in
\* particular one with an empty required field) leaves currentSection as it
\* is, and every error computed for the section is in ValidationErrors after it.
C1_AdvanceGated ==
    [][Advance =>
          /\ ~CurrentValidation.isValid =>
                /\ currentSection' = currentSection
                /\ CurrentValidation.newErrors # EmptyRecord
                /\ Surfaced(CurrentValidation.newErrors, formErrors')
          /\ \A field \in EmptyRequiredFields :
                /\ currentSection' = currentSection
                /\ field.fieldId \in DOMAIN formErrors'
                /\ formErrors'[field.fieldId] = <<field.label, " is required">>]_vars

\* an advance() was refused at a section that is not the last one: the index
\* is still there and the required field's error is shown
C1_Witness ==
    /\ NumSections = 2 /\ currentSection = 0
    /\ \E field \in CurrentFields :
          /\ field.required
          /\ Get(formValues, field.fieldId) = Str(<<>>)
          /\ field.fieldId \in DOMAIN formErrors

\* C2: retreat() can always be called; from an index i > 0 it sets
\* currentSection to i - 1 and at index 0 it leaves it at 0, and it changes
\* neither ValidationErrors nor the values, whatever they are.
C2_RetreatUnconditional ==
    /\ [](ENABLED Retreat)
    /\ [][Retreat =>
             /\ currentSection > 0 => currentSection' = currentSection - 1
             /\ currentSection = 0 => currentSection' = 0
             /\ formErrors' = formErrors
             /\ formValues' = formValues]_vars

\* the first section is displayed again although the form holds an error and
\* a value that fails validation
C2_Witness ==
    /\ NumSections = 2 /\ currentSection = 0
    /\ "hobbies" \in DOMAIN formErrors
    /\ "city" \in DOMAIN formValues
    /\ ~SectionValidation(formData, 0, formValues).isValid

\* C3: currentSection starts at 0, is always an integer of 0 .. N-1, and no
\* operation changes it by more than 1; an advance() at index N-1 does not
\* move it.
C3_IndexInBounds ==
    /\ currentSection = 0
    /\ [](currentSection \in 0..(NumSections - 1))
    /\ [][/\ currentSection' - currentSection \in {0 - 1, 0, 1}
          /\ Advance /\ currentSection = NumSections - 1
                => currentSection' = currentSection]_vars

\* the last of three sections is displayed and passes validation
C3_Witness ==
    /\ NumSections = 3 /\ currentSection = 2
    /\ CurrentValidation.isValid

\* the values renderField's handlers can set a field of this type to
FieldValues(field) ==
    IF field.type \in TextTypes THEN {Str(s) : s \in InputStrings}
    ELSE IF field.type = "checkbox" THEN {Arr(a) : a \in BoundedLists}
    ELSE {Str(<<>>)} \cup {Str(<<o>>) : o \in Range(field.options)}

\* C4: after setValue(f, v), for any field f and any value v, ValidationErrors
\* has no entry for f, the stored value of f is v, and no validation has run:
\* every entry ValidationErrors holds was there before, with the same message.
C4_EditClearsError ==
    [][\A field \in AllFields : \A v \in FieldValues(field) :
          handleInputChange(field.fieldId, v) =>
              /\ field.fieldId \notin DOMAIN formErrors'
              /\ Get(formValues', field.fieldId) = v
              /\ Surfaced(formErrors', formErrors)
              /\ currentSection' = currentSection]_vars

\* a field was set to a value that fails validation and has no error entry,
\* while the other section's error is still shown
C4_Witness ==
    /\ NumSections = 2
    /\ "hobbies" \in DOMAIN formErrors
    /\ "city" \notin DOMAIN formErrors
    /\ Get(formValues, "city") = Str(<<" ">>)
    /\ ~SectionValidation(formData, 0, formValues).isValid

\* C5: the value store is handed off only by a submit() at currentSection =
\* N-1 whose validation of the final section reports no error, and then it is
\* the value store that is handed off; a submit() whose validation reports an
\* error hands nothing off, leaves currentSection and the value store
\* unchanged, and the computed errors are in ValidationErrors after it.
C5_SubmitGated ==
    [][/\ console' # console =>
             /\ currentSection = NumSections - 1
             /\ CurrentValidation.isValid
             /\ console' = <<formValues>>
       /\ ClickSubmit /\ CurrentValidation.isValid => console' = <<formValues>>
       /\ ClickSubmit /\ ~CurrentValidation.isValid =>
             /\ console' = console
             /\ currentSection' = currentSection
             /\ formValues' = formValues
             /\ Surfaced(CurrentValidation.newErrors, formErrors')]_vars

\* a form of two sections was handed off, and a later submit() was refused
C5_Witness ==
    /\ NumSections = 2 /\ currentSection = 1
    /\ console # <<>>
    /\ ~CurrentValidation.isValid
    /\ "hobbies" \in DOMAIN formErrors

----------------------------------------------------------------------------
(* Properties of the field validator *)

\* the entry of newErrors for the field validated, <<>> when there is none
Recorded ==
    IF vField.fieldId \in DOMAIN vState.newErrors
    THEN vState.newErrors[vField.fieldId]
    ELSE <<>>

\* absent, an empty or whitespace-only string, or a list with no element
IsEmptyValue(value) ==
    \/ value = Undefined
    \/ value.t = "string" /\ \A i \in 1..Len(value.v) : value.v[i] = " "
    \/ value.t = "array" /\ Len(value.v) = 0

\* C6: the required rule records "<label> is required" for a field exactly
\* when the field is required and its value is absent, an empty or
\* whitespace-only string, or an empty list; a field that is not required
\* never fails it.
C6_RequiredRule ==
    vpc = "minLength" =>
        ((Recorded = <<vField.label, " is required">>)
            <=> (vField.required /\ IsEmptyValue(vValue)))

\* the min-length rule has recorded its message for the field
MinLengthReported == Recorded # <<>> /\ Recorded[2] = " must be at least "

\* C7 as claimed: for a field with minLength defined and any string value,
\* the empty string included, the min-length rule reports its failure iff
\* the string is shorter than minLength; it reports none for a list or when
\* minLength is undefined.
C7_MinLengthRule ==
    vpc = "maxLength" =>
        IF vField.minLength # <<>> /\ vValue.t = "string"
        THEN MinLengthReported <=> Len(vValue.v) < vField.minLength[1]
        ELSE ~MinLengthReported

\* C7 amended: for a field with minLength defined and any non-empty string
\* value, the min-length rule reports "<label> must be at least <minLength>
\* characters" iff the string is shorter than minLength; it reports none for
\* the empty string, a list, an absent value or when minLength is undefined.
C7_MinLengthRuleNonEmpty ==
    vpc = "maxLength" =>
        IF vField.minLength # <<>> /\ vValue.t = "string" /\ vValue.v # <<>>
        THEN /\ MinLengthReported <=> Len(vValue.v) < vField.minLength[1]
             /\ MinLengthReported =>
                   Recorded = <<vField.label, " must be at least ",
                                ToString(vField.minLength[1]), " characters">>
        ELSE ~MinLengthReported

\* the min-length message has replaced the required message of a required
\* field whose value is one blank
C7_Witness ==
    /\ vpc = "maxLength"
    /\ vField.required /\ vField.minLength = <<2>>
    /\ vValue = Str(<<" ">>)
    /\ MinLengthReported

----------------------------------------------------------------------------
(* Properties of the checkbox handler *)

\* the list a stored value stands for: an absent value is the empty list
ListOf(value) == IF value.t = "array" THEN value.v ELSE <<>>

RECURSIVE RemoveFirst(_, _)
RemoveFirst(list, x) ==
    IF list = <<>> THEN <<>>
    ELSE IF Head(list) = x THEN Tail(list)
    ELSE <<Head(list)>> \o RemoveFirst(Tail(list), x)

\* C8: toggling an option to checked stores the old list with the option
\* appended when it was absent and the old list when it was present; toggling
\* it to unchecked removes its first occurrence and keeps the order of the
\* rest. From an empty value: a on gives [a], a on again gives [a], a off
\* gives [].
C8_ToggleSemantics ==
    /\ tTrace = <<TRUE>> =>
          tValue = Arr(IF tOption \in Range(ListOf(tInitial))
                       THEN ListOf(tInitial)
                       ELSE Append(ListOf(tInitial), tOption))
    /\ tTrace = <<FALSE>> => tValue = Arr(RemoveFirst(ListOf(tInitial), tOption))
    /\ tInitial = Undefined /\ tOption = "a" =>
          /\ tTrace = <<TRUE>> => tValue = Arr(<<"a">>)
          /\ tTrace = <<TRUE, TRUE>> => tValue = Arr(<<"a">>)
          /\ tTrace = <<TRUE, TRUE, FALSE>> => tValue = Arr(<<>>)

\* C9: for an option that is not in the list, toggling it on and then off
\* yields a list with the same elements in the same order as the original.
C9_OnThenOff ==
    (tTrace = <<TRUE, FALSE>> /\ tOption \notin Range(ListOf(tInitial)))
        => ListOf(tValue) = ListOf(tInitial)

\* an option absent from a list of two elements was toggled on and then off
C9_Witness ==
    /\ tTrace = <<TRUE, FALSE>>
    /\ tOption \notin Range(ListOf(tInitial))
    /\ Len(ListOf(tInitial)) = 2
    /\ tValue = tInitial

----------------------------------------------------------------------------
(* The first end-to-end scenario *)

NameValue == Get(formValues, "name")
Alice == <<"A", "l", "i", "c", "e">>

\* C10: on the one-section schema with the required text field "Name"
\* (minLength 2, maxLength 10): advance() with value "" leaves the index at 0
\* and sets "Name is required"; setValue to "A" removes the entry; the next
\* advance() sets "Name must be at least 2 characters" and leaves the index
\* at 0; setValue to "Alice" followed by advance() leaves no error for the
\* field.
C10_ScenarioOne ==
    [][formData = NameSchema =>
          /\ Advance /\ NameValue \in {Undefined, Str(<<>>)} =>
                /\ currentSection' = 0
                /\ formErrors' = "name" :> <<"Name", " is required">>
          /\ handleInputChange("name", Str(<<"A">>)) => "name" \notin DOMAIN formErrors'
          /\ Advance /\ NameValue = Str(<<"A">>) =>
                /\ currentSection' = 0
                /\ formErrors' =
                       "name" :> <<"Name", " must be at least ", "2", " characters">>
          /\ handleInputChange("name", Str(Alice)) => "name" \notin DOMAIN formErrors'
          /\ Advance /\ NameValue = Str(Alice) /\ "name" \notin DOMAIN formErrors =>
                /\ currentSection' = 0
                /\ "name" \notin DOMAIN formErrors']_vars

\* the value is "Alice" and the field has no error
C10_Witness ==
    /\ formData = NameSchema
    /\ NameValue = Str(Alice)
    /\ formErrors = EmptyRecord
    /\ currentSection = 0

----------------------------------------------------------------------------
(* Properties of the session flow *)

\* the get-form requests sent so far
GetFormRequests == {i \in 1..Len(network) : network[i].kind = "get-form"}

\* C11 as claimed: after a registerUser exchange the session is authenticated
\* if the answer is a success or its message is "User already exists. Fetch
\* /get-form to get form json"; for every other answer it stays
\* unauthenticated and the error shown equals the answer's message.
C11_RegisterOutcome ==
    [][\A userData \in registerPending, ok \in BOOLEAN, message \in RegisterMessages :
          RegisterAnswer(userData, ok, message) =>
              IF ok \/ message = "User already exists. Fetch /get-form to get form json"
              THEN isLoggedIn' /\ user' = <<userData>>
              ELSE ~isLoggedIn' /\ user' = <<>> /\ error' = <<message>>]_vars

\* C11 amended: as claimed, except that for a non-success answer without a
\* message the error shown is "Failed to register user".
C11_RegisterOutcomeFallback ==
    [][\A userData \in registerPending, ok \in BOOLEAN, message \in RegisterMessages :
          RegisterAnswer(userData, ok, message) =>
              IF ok \/ message = "User already exists. Fetch /get-form to get form json"
              THEN isLoggedIn' /\ user' = <<userData>>
              ELSE /\ ~isLoggedIn' /\ user' = <<>>
                   /\ error' = <<IF message = ""
                                 THEN "Failed to register user"
                                 ELSE message>>]_vars

\* an "already exists" answer that was no success has authenticated the
\* session, and its message is the error shown
C11_Witness ==
    /\ isLoggedIn /\ user # <<>>
    /\ error = <<"User already exists. Fetch /get-form to get form json">>
    /\ registerPending = {}

\* C12: a fetchForm exchange that fails, by its answer or in transport, sets
\* no schema, shows an error and clears the loading flag, and no request is
\* sent after it; one that succeeds makes formData the form of the answer.
C12_FetchOutcome ==
    /\ [][\A roll \in fetchPending, ok \in BOOLEAN, message \in FetchMessages,
             form \in FetchedForms :
             FetchAnswer(roll, ok, message, form) =>
                 IF ok
                 THEN appFormData' = <<form>> /\ ~isLoading'
                 ELSE /\ appFormData' = <<>> /\ appFormData = <<>>
                      /\ error' # <<>>
                      /\ ~isLoading'
                      /\ network' = network]_vars
    /\ [][FetchRejects =>
             /\ appFormData' = <<>> /\ error' # <<>> /\ ~isLoading'
             /\ network' = network]_vars
    /\ [][GetFormRequests # {} /\ fetchPending = {} => network' = network]_vars

\* a fetchForm exchange has failed: no schema, an error, no loading
C12_Witness ==
    /\ GetFormRequests # {} /\ fetchPending = {}
    /\ appFormData = <<>>
    /\ error = <<"User not found">>
    /\ ~isLoading

\* C13: while a request is outstanding the loading flag is true, no login
\* submission is dispatched, and so at most one request is outstanding; the
\* loading flag is false after every request completes.
C13_LoadingGuardsRequests ==
    /\ [](registerPending \cup fetchPending # {} => isLoading)
    /\ [](Cardinality(registerPending) + Cardinality(fetchPending) <= 1)
    /\ [][registerPending \cup fetchPending # {} =>
             /\ ~ClickLogin
             /\ network' = network]_vars
    /\ [][RegisterResponds \/ RegisterRejects \/ FetchResponds \/ FetchRejects
             => ~isLoading']_vars

\* the get-form request is outstanding, after a create-user request that
\* was answered
C13_Witness ==
    /\ fetchPending # {} /\ registerPending = {}
    /\ isLoading
    /\ Len(network) = 3

\* C14: at most one fetchForm request is sent, it is sent only when the
\* session is authenticated, and formData, once set, is never changed.
C14_FetchedOnce ==
    /\ [](Cardinality(GetFormRequests) <= 1)
    /\ [][Cardinality(GetFormRequests') > Cardinality(GetFormRequests)
             => isLoggedIn /\ user # <<>>]_vars
    /\ [][appFormData # <<>> => appFormData' = appFormData]_vars

\* the form was fetched for the authenticated user with one get-form request
C14_Witness ==
    /\ appFormData # <<>>
    /\ isLoggedIn
    /\ Cardinality(GetFormRequests) = 1
    /\ network[Len(network)] = Request("get-form", user[1].rollNumber)

----------------------------------------------------------------------------
(* Properties of the rule order *)

\* the message of the last rule, in the order required, min-length,
\* max-length, whose condition holds; <<>> when none holds
LastFiringMessage ==
    IF MaxLengthRuleFires(vField, vValue) THEN MaxLengthMessage(vField)
    ELSE IF MinLengthRuleFires(vField, vValue) THEN MinLengthMessage(vField)
    ELSE IF RequiredRuleFires(vField, vValue) THEN RequiredMessage(vField)
    ELSE <<>>

\* a string of one or more characters, all of them blanks
IsBlank(value) ==
    /\ value.t = "string" /\ value.v # <<>>
    /\ \A i \in 1..Len(value.v) : value.v[i] = " "

\* C15: when the forEach body has run for a field, the message kept for it
\* is that of the last rule that fired, in the order required, min-length,
\* max-length; a required field whose value is blanks shorter than minLength
\* (and not longer than maxLength) ends with the min-length message; and
\* the field has at most one message.
C15_LastRuleWins ==
    vpc = "done" =>
        /\ Recorded = LastFiringMessage
        /\ (/\ vField.required /\ IsBlank(vValue)
            /\ vField.minLength # <<>> /\ Len(vValue.v) < vField.minLength[1]
            /\ vField.maxLength # <<>> => Len(vValue.v) <= vField.maxLength[1])
              => Recorded = <<vField.label, " must be at least ",
                              ToString(vField.minLength[1]), " characters">>
        /\ DOMAIN vState.newErrors \subseteq {vField.fieldId}

\* the three rules have run on a required field whose value is one blank,
\* with minLength 2: required and min-length fired, the min-length message
\* is the one kept
C15_Witness ==
    /\ vpc = "done"
    /\ vField.required /\ vField.minLength = <<2>> /\ vField.maxLength = <<3>>
    /\ vValue = Str(<<" ">>)
    /\ Recorded = <<"F", " must be at least ", "2", " characters">>

----------------------------------------------------------------------------
(* Properties of the error record and the value store *)

SectionFieldIds(sectionIndex) ==
    {field.fieldId : field \in Range(formData.sections[sectionIndex + 1].fields)}

\* C16: a validation run for the displayed section, from advance() or
\* submit(), keeps every entry of ValidationErrors for a field outside the
\* section, with its message, and creates no entry outside the section.
C16_ValidationFrame ==
    [][Advance \/ Submit =>
          \A id \in (DOMAIN formErrors \cup DOMAIN formErrors')
                        \ SectionFieldIds(currentSection) :
              /\ id \in DOMAIN formErrors
              /\ id \in DOMAIN formErrors'
              /\ formErrors'[id] = formErrors[id]]_vars

\* the first section was validated while the second section's error was
\* shown: both entries are there
C16_Witness ==
    /\ NumSections = 2 /\ currentSection = 0
    /\ "hobbies" \in DOMAIN formErrors
    /\ "city" \in DOMAIN formErrors
    /\ formErrors["city"] = <<"City", " is required">>

\* C17: every entry (f, msg) of ValidationErrors is justified: validating
\* the section of f against the current value store gives f the message msg.
C17_ErrorsJustified ==
    \A id \in DOMAIN formErrors :
        \E j \in 0..(NumSections - 1) :
            /\ id \in SectionFieldIds(j)
            /\ LET newErrors == SectionValidation(formData, j, formValues).newErrors IN
               /\ id \in DOMAIN newErrors
               /\ newErrors[id] = formErrors[id]

\* the errors of two sections are shown, each for the value the store holds
C17_Witness ==
    /\ NumSections = 2 /\ currentSection = 0
    /\ "hobbies" \in DOMAIN formErrors
    /\ "city" \in DOMAIN formErrors
    /\ formErrors["city"] = <<"City", " must be at least ", "2", " characters">>
    /\ Get(formValues, "city") = Str(<<"a">>)

\* C18: with only the displayed section's fields editable, every section
\* before the displayed one passes validation on the current value store,
\* and when submit() hands the value store off, every section passes
\* validation on the values handed off.
C18_EarlierSectionsValid ==
    /\ [](\A j \in 0..(currentSection - 1) :
             SectionValidation(formData, j, formValues).isValid)
    /\ [][console' # console =>
             /\ console' = <<formValues>>
             /\ \A j \in 0..(NumSections - 1) :
                   SectionValidation(formData, j, formValues).isValid]_vars

\* a form of three sections was handed off from its last section, with the
\* values the first two sections were left with
C18_Witness ==
    /\ NumSections = 3 /\ currentSection = 2
    /\ console = <<formValues>>
    /\ Get(formValues, "city") = Str(Alice)
    /\ Get(formValues, "plan") = Str(<<"b">>)

\* C19, the case of the required checkbox: when the user checks an option
\* of a required checkbox field, the field passes validation.
C19_RequiredCheckboxPasses ==
    [][\A field \in CurrentFields : \A o \in Range(field.options) :
          (/\ field.type = "checkbox" /\ field.required
           /\ CheckBox
           /\ <<field.fieldId, o>> \in domChecked' \ domChecked)
              => ValidateField(field, Get(formValues', field.fieldId),
                               InitialValidation).isValid]_vars

\* C20: advance(), retreat() and submit() leave the value store as it is;
\* setValue(f, v) leaves currentSection, the stored value of every other
\* field and the ValidationErrors entry of every other field as they are.
C20_HandlerFrames ==
    /\ [][Advance \/ Retreat \/ Submit => formValues' = formValues]_vars
    /\ [][\A field \in AllFields : \A v \in FieldValues(field) :
             handleInputChange(field.fieldId, v) =>
                 /\ currentSection' = currentSection
                 /\ \A id \in (DOMAIN formValues \cup DOMAIN formValues')
                                  \ {field.fieldId} :
                       /\ id \in DOMAIN formValues /\ id \in DOMAIN formValues'
                       /\ formValues'[id] = formValues[id]
                 /\ \A id \in (DOMAIN formErrors \cup DOMAIN formErrors')
                                  \ {field.fieldId} :
                       /\ id \in DOMAIN formErrors /\ id \in DOMAIN formErrors'
                       /\ formErrors'[id] = formErrors[id]]_vars

\* the first section's field was set, with its error shown, while the
\* second section was displayed with its own value and error
C20_Witness ==
    /\ NumSections = 2 /\ currentSection = 1
    /\ formData.sections[1].fields[1].required
    /\ Get(formValues, "city") = Str(<<" ">>)
    /\ "city" \notin DOMAIN formErrors
    /\ "hobbies" \in DOMAIN formErrors
    /\ Get(formValues, "hobbies") = Arr(<<>>)

----------------------------------------------------------------------------
(* Properties of the login form *)

\* the empty string or a string of blanks only
IsBlankInput(s) == \A i \in 1..Len(s) : s[i] = " "

\* a create-user request is sent in this step
RegisterDispatched ==
    /\ Len(network') = Len(network) + 1
    /\ network'[Len(network')].kind = "create-user"

\* C21: a registerUser request is sent from the login form only when
\* rollNumber and name both hold a non-blank character, and it carries the
\* roll number typed; a login submission with a blank input sends no
\* request, leaves the session unauthenticated and the loading flag false,
\* and records "Roll Number is required" / "Name is required" for each
\* blank input.
C21_LoginGated ==
    [][/\ RegisterDispatched =>
             /\ ClickLogin
             /\ ~IsBlankInput(rollNumber) /\ ~IsBlankInput(name)
             /\ network'[Len(network')].rollNumber = rollNumber
             /\ User(rollNumber, name) \in registerPending'
       /\ ClickLogin /\ (IsBlankInput(rollNumber) \/ IsBlankInput(name)) =>
             /\ network' = network
             /\ registerPending' = registerPending /\ fetchPending' = fetchPending
             /\ ~isLoggedIn' /\ user' = <<>>
             /\ ~isLoading'
             /\ IsBlankInput(rollNumber) =>
                   /\ "rollNumber" \in DOMAIN loginErrors'
                   /\ loginErrors'["rollNumber"] = "Roll Number is required"
             /\ IsBlankInput(name) =>
                   /\ "name" \in DOMAIN loginErrors'
                   /\ loginErrors'["name"] = "Name is required"]_vars

\* a login was submitted with a blank for the roll number and a name: only
\* the roll number's error is recorded and nothing was sent
C21_Witness ==
    /\ rollNumber = <<" ">> /\ name = <<"a">>
    /\ DOMAIN loginErrors = {"rollNumber"}
    /\ loginErrors["rollNumber"] = "Roll Number is required"
    /\ network = <<>>
    /\ ~isLoggedIn /\ ~isLoading

=============================================================================
